---- MODULE Spec2Model ----
(***************************************************************************)
(* A model of actualizar_paxban.py: the hourly job that downloads the      *)
(* FIRMS hotspot feeds, classifies every row against the concession        *)
(* polygons, writes incendios.json and dispatches the alert of the         *)
(* dominant tier.                                                          *)
(*                                                                         *)
(* Units.  Time is counted in minutes since 00:00 of day 0, so the field   *)
(* horas of a record holds the age in minutes (horas = 90 is 1.5 h).       *)
(* Coordinates are integers on a grid whose step is 0.045 degrees, so the  *)
(* 0.09 degree buffer of main is 2 grid steps.  A polygon is an            *)
(* axis-aligned rectangle [x1, x2] x [y1, y2] with x1 < x2 and y1 < y2.    *)
(***************************************************************************)
EXTENDS Integers, Sequences, FiniteSets, TLC

VARIABLES
    ahora,        \* datetime.utcnow(), in minutes
    corrida,      \* number of the scheduled run in progress
    pc,           \* position of the run inside main
    entorno,      \* os.environ and the optional imports: ACTION_TYPE, FORCE_REPORT, REPORT_REASON, pyproj
    geojson,      \* concesiones1.geojson as it is on disk
    concesiones,  \* the dict returned by cargar_concesiones, in insertion order
    sat_i,        \* index in satelites of the source being fetched
    lines,        \* rows of the current response still to be processed
    leidas,       \* rows taken by the for loop in this run, each with its source
    fallos,       \* indexes of the sources whose download raised or was not a 200
    puntos,       \* the list puntos of main
    alertas,      \* active CONFIRMED subset
    pre_alertas,  \* active PRE_ALERT subset
    img_bytes,    \* the rendered map, or None
    disco,        \* files written by the job; they outlive a run
    enviados,     \* notifications handed to enviar_alerta_telegram / enviar_correo_alerta in this run
    traza,        \* steps of main executed in this run, in order
    alertados,    \* detections that were in the active subset of an earlier run
    angle,        \* local angle of calcular_campamento_cercano, in half-degrees
    card,         \* local card of calcular_campamento_cercano, "" while unassigned
    excepcion,    \* class of the exception that left main, "" when none did
    exit_status   \* exit status of the process, SinSalida while it runs

vars == <<ahora, corrida, pc, entorno, geojson, concesiones, sat_i, lines, leidas, fallos,
          puntos, alertas, pre_alertas, img_bytes, disco, enviados, traza, alertados,
          angle, card, excepcion, exit_status>>

(***************************************************************************)
(* Bounds of the model.                                                    *)
(***************************************************************************)
MaxCoord == 3       \* longitudes 0..MaxCoord
MaxLat == 3         \* latitudes 0..MaxLat
MaxAreas == 2       \* features of a drawn geojson
MaxFilas == 2       \* data rows downloaded in one run, all sources together
MaxCorridas == 2    \* scheduled runs in a row
MaxTicks == 1       \* minutes the clock may advance inside one run

(***************************************************************************)
(* Program constants.                                                      *)
(***************************************************************************)
BUFFER_GRADOS == 2        \* 0.09 degrees, in grid steps of 0.045 degrees
MINUTOS_HORA == 60
VENTANA_MIN == 90         \* 1.5 hours
HORAS_ROJO == 24
HORAS_NARANJA == 48
INTERVALO_MIN == 60       \* "ejecuciones horarias"
INICIO_MIN == 3 * MINUTOS_HORA         \* the first run starts at 03:00 of day 0

satelites == <<"MODIS_NRT", "VIIRS_SNPP_NRT", "VIIRS_NOAA20_NRT">>

(***************************************************************************)
(* shapely: a Point and a rectangular Polygon.                             *)
(***************************************************************************)
Point(lon, lat) == [lon |-> lon, lat |-> lat]

Rect(x1, x2, y1, y2) == [x1 |-> x1, x2 |-> x2, y1 |-> y1, y2 |-> y2]

\* Signed offset of the point from the nearest point of the polygon, per axis.
OffX(poly, p) == IF p.lon < poly.x1 THEN p.lon - poly.x1
                 ELSE IF p.lon > poly.x2 THEN p.lon - poly.x2 ELSE 0

OffY(poly, p) == IF p.lat < poly.y1 THEN p.lat - poly.y1
                 ELSE IF p.lat > poly.y2 THEN p.lat - poly.y2 ELSE 0

\* A mutant of contains: the boundary counts as inside (shapely's covers).
contains_inclusivo(poly, p) ==
    /\ poly.x1 <= p.lon /\ p.lon <= poly.x2
    /\ poly.y1 <= p.lat /\ p.lat <= poly.y2

\* poly.contains(p): the point lies in the interior; a point of the boundary
\* is not contained.
contains(poly, p) ==
    /\ poly.x1 < p.lon /\ p.lon < poly.x2
    /\ poly.y1 < p.lat /\ p.lat < poly.y2

\* On an edge or a vertex of the polygon.
EnBorde(poly, p) == contains_inclusivo(poly, p) /\ ~contains(poly, p)

\* poly.distance(p), squared: 0 inside and on the boundary.
distance2(poly, p) == OffX(poly, p) * OffX(poly, p) + OffY(poly, p) * OffY(poly, p)

\* poly.distance(p) < 0.09
EnBuffer(poly, p) == distance2(poly, p) < BUFFER_GRADOS * BUFFER_GRADOS

(***************************************************************************)
(* The enrichers.  Their strings are kept as records: what they are        *)
(* computed from, and whether the projection was available.                *)
(***************************************************************************)
NoDisponible == [disp |-> FALSE, x |-> 0, y |-> 0]

\* A mutant of convertir_a_gtm: the test of line 83 is missing.
convertir_a_gtm_sin_guarda(lon, lat, pyproj) == [disp |-> TRUE, x |-> lon, y |-> lat]

\* convertir_a_gtm: "No disponible" without pyproj, else the projected pair.
convertir_a_gtm(lon, lat, pyproj) ==
    IF ~pyproj THEN NoDisponible ELSE [disp |-> TRUE, x |-> lon, y |-> lat]

None_dist == [nulo |-> TRUE, dist2 |-> 0, direction |-> ""]

\* The quadrant of atan2(dy, dx): [-45, 45] Este, (45, 135] Norte,
\* [-135, -45) Sur, else Oeste.
Direccion(dx, dy) ==
    IF dx >= 0 /\ -dx <= dy /\ dy <= dx THEN "Este"
    ELSE IF dy > 0 /\ -dy <= dx /\ dx < dy THEN "Norte"
    ELSE IF dy < 0 /\ dy <= dx /\ dx < -dy THEN "Sur"
    ELSE "Oeste"

\* calcular_distancia_direccion: None without pyproj, else the distance to the
\* polygon and the direction from its nearest point to the detection.
calcular_distancia_direccion(p, poly, pyproj) ==
    IF ~pyproj THEN None_dist
    ELSE [nulo |-> FALSE, dist2 |-> distance2(poly, p),
          direction |-> Direccion(OffX(poly, p), OffY(poly, p))]

NA_campamento == [disp |-> FALSE, x |-> 0, y |-> 0]

\* calcular_campamento_cercano: "N/A" without pyproj, else a text computed
\* from the projected position of the detection.
calcular_campamento_cercano(lon, lat, pyproj) ==
    IF ~pyproj THEN NA_campamento ELSE [disp |-> TRUE, x |-> lon, y |-> lat]

(***************************************************************************)
(* The classification loop of main (lines 713-730).                        *)
(***************************************************************************)
\* "Paxbán" in nom
EsPaxban(nom) == nom \in {"Paxbán", "Paxbán Sur"}

BucleInicial ==
    [en_paxban |-> FALSE, en_prealerta |-> FALSE, concesion_nombre |-> "Externa",
     dist_campamento_str |-> NA_campamento, dist_info |-> None_dist, break |-> FALSE]

\* A mutant of the loop body: the buffer test is an if of its own, not the
\* elif of the containment test.
CuerpoBucle_sin_elif(e, nom, poly, p, pyproj) ==
    IF ~EsPaxban(nom) THEN e
    ELSE LET e1 == IF contains(poly, p)
                   THEN [e EXCEPT !.en_paxban = TRUE, !.concesion_nombre = "Paxbán",
                                  !.dist_campamento_str = calcular_campamento_cercano(p.lon, p.lat, pyproj),
                                  !.break = TRUE]
                   ELSE e
         IN IF EnBuffer(poly, p)
            THEN [e1 EXCEPT !.en_prealerta = TRUE,
                            !.concesion_nombre = "Zona de Amortiguamiento",
                            !.dist_info = calcular_distancia_direccion(p, poly, pyproj)]
            ELSE e1

\* One iteration of "for nom, poly in concesiones.items()".
CuerpoBucle(e, nom, poly, p, pyproj) ==
    IF ~EsPaxban(nom) THEN e
    ELSE IF contains(poly, p)
         THEN [e EXCEPT !.en_paxban = TRUE, !.concesion_nombre = "Paxbán",
                        !.dist_campamento_str = calcular_campamento_cercano(p.lon, p.lat, pyproj),
                        !.break = TRUE]
         ELSE IF EnBuffer(poly, p)
              THEN [e EXCEPT !.en_prealerta = TRUE,
                             !.concesion_nombre = "Zona de Amortiguamiento",
                             !.dist_info = calcular_distancia_direccion(p, poly, pyproj)]
              ELSE e

RECURSIVE Bucle(_, _, _, _, _)
\* The loop from item i on: it stops at the end of the dict or at a break.
Bucle(e, conc, i, p, pyproj) ==
    IF i > Len(conc) \/ e.break THEN e
    ELSE Bucle(CuerpoBucle(e, conc[i].nom, conc[i].poly, p, pyproj), conc, i + 1, p, pyproj)

\* A mutant of Clasificar: the locals of lines 713-717 are not set again for
\* each row, the flags of the row before are carried over.
Clasificar_arrastra(conc, p, pyproj) ==
    Bucle(IF puntos = <<>> THEN BucleInicial
          ELSE [BucleInicial EXCEPT !.en_paxban = puntos[Len(puntos)].alerta,
                                    !.en_prealerta = puntos[Len(puntos)].pre_alerta],
          conc, 1, p, pyproj)

\* The flags and names main holds after the loop for the point p.
Clasificar(conc, p, pyproj) == Bucle(BucleInicial, conc, 1, p, pyproj)

(***************************************************************************)
(* A raw row.  line.split(',') is a sequence of fields; a field is a text  *)
(* of one of four shapes: a decimal number ("num", val = <<n>>), a date    *)
(* YYYY-MM-DD ("fecha", val = <<day>>), a string of digits ("dig", val =   *)
(* the digits) or any other text ("txt").                                  *)
(***************************************************************************)
Num(n) == [tipo |-> "num", val |-> <<n>>]
Fecha(dia) == [tipo |-> "fecha", val |-> <<dia>>]
Dig(ds) == [tipo |-> "dig", val |-> ds]
Txt == [tipo |-> "txt", val |-> <<>>]

RECURSIVE ValorDigitos(_)
ValorDigitos(ds) ==
    IF ds = <<>> THEN 0 ELSE 10 * ValorDigitos(SubSeq(ds, 1, Len(ds) - 1)) + ds[Len(ds)]

\* float(x) succeeds
EsFloat(f) == f.tipo = "num" \/ (f.tipo = "dig" /\ f.val # <<>>)

\* float(x)
float(f) == IF f.tipo = "num" THEN f.val[1] ELSE ValorDigitos(f.val)

\* The part "%M" of the format on the digits from position k on: two digits
\* [0-5]\d, else one digit; the position after it, 0 when nothing matches.
FinMinutos(ds, k) ==
    IF k + 1 <= Len(ds) /\ ds[k] <= 5 THEN k + 2
    ELSE IF k <= Len(ds) THEN k + 1 ELSE 0

\* The part "%H" of the format: how many digits the hour takes (2[0-3] or
\* [0-1]\d, else one digit), backtracking to one digit when no minute
\* follows two; 0 when nothing matches.
DigitosHora(ds) ==
    LET dos == /\ Len(ds) >= 2
               /\ \/ (ds[1] = 2 /\ ds[2] <= 3)
                  \/ ds[1] <= 1
    IN IF dos /\ FinMinutos(ds, 3) # 0 THEN 2
       ELSE IF Len(ds) >= 1 /\ FinMinutos(ds, 2) # 0 THEN 1
       ELSE 0

\* "%H%M" matches the whole field (no unconverted data remains).
HoraValida(ds) ==
    /\ DigitosHora(ds) # 0
    /\ FinMinutos(ds, DigitosHora(ds) + 1) = Len(ds) + 1

\* Minutes of the day parsed from a field that HoraValida accepts.
MinutosDe(ds) ==
    LET h == DigitosHora(ds)
    IN 60 * ValorDigitos(SubSeq(ds, 1, h)) + ValorDigitos(SubSeq(ds, h + 1, Len(ds)))

\* datetime.strptime(f"{d[5]} {d[6]}", "%Y-%m-%d %H%M") succeeds
strptime_ok(fd, ft) == fd.tipo = "fecha" /\ ft.tipo = "dig" /\ HoraValida(ft.val)

\* datetime.strptime(...), in minutes
strptime(fd, ft) == fd.val[1] * 24 * MINUTOS_HORA + MinutosDe(ft.val)

\* strftime("%H%M") of an instant, as digits
strftime_HM(t) ==
    LET m == t % (24 * MINUTOS_HORA)
        h == m \div MINUTOS_HORA
        mi == m % MINUTOS_HORA
    IN <<h \div 10, h % 10, mi \div 10, mi % 10>>

\* The text f"{d[5]} {d[6]}" kept in the record.
TextoFecha(fd, ft) == [dia |-> fd.val, hora |-> ft.val]

\* A mutant of FilaLanza: an unparsable timestamp does not raise.
FilaLanza_sin_fecha(d) ==
    \/ Len(d) < 2
    \/ ~EsFloat(d[1]) \/ ~EsFloat(d[2])
    \/ Len(d) < 7

\* A mutant of FilaLanza: the row also raises when the registry holds no core
\* area, as a lookup of the area by its name would.
FilaLanza_sin_nucleo(d) ==
    \/ Len(d) < 2
    \/ ~EsFloat(d[1]) \/ ~EsFloat(d[2])
    \/ Len(d) < 7
    \/ ~strptime_ok(d[6], d[7])
    \/ \A k \in 1..Len(concesiones) : ~EsPaxban(concesiones[k].nom)

\* The body of the inner try raises for the row d (lines 708-744): d[1] is
\* missing, a coordinate is not a float, d[5] or d[6] is missing, or the
\* timestamp does not parse.  (Fields are numbered from 1 here.)
FilaLanza(d) ==
    \/ Len(d) < 2
    \/ ~EsFloat(d[1]) \/ ~EsFloat(d[2])
    \/ Len(d) < 7
    \/ ~strptime_ok(d[6], d[7])

\* color = "red" if horas <= 24 else "orange" if horas <= 48 else "yellow"
ColorDe(horas) ==
    IF horas <= HORAS_ROJO * MINUTOS_HORA THEN "red"
    ELSE IF horas <= HORAS_NARANJA * MINUTOS_HORA THEN "orange" ELSE "yellow"

\* The dict appended to puntos for a row that does not raise (lines 709-744).
RegistroDe(d, sat, conc, now, pyproj) ==
    LET lat == float(d[1])
        lon == float(d[2])
        c == Clasificar(conc, Point(lon, lat), pyproj)
        horas == now - strptime(d[6], d[7])
    IN [lat |-> lat, lon |-> lon, color |-> ColorDe(horas),
        alerta |-> c.en_paxban, pre_alerta |-> c.en_prealerta,
        sat |-> sat, fecha |-> TextoFecha(d[6], d[7]), horas |-> horas,
        concesion |-> c.concesion_nombre,
        gtm |-> convertir_a_gtm(lon, lat, pyproj),
        dist_info |-> c.dist_info,
        dist_campamento |-> c.dist_campamento_str]

\* puntos after the inner try/except of one row.
TrasFila(pts, d, sat, conc, now, pyproj) ==
    IF FilaLanza(d) THEN pts ELSE Append(pts, RegistroDe(d, sat, conc, now, pyproj))

(***************************************************************************)
(* cargar_concesiones (lines 632-639).                                     *)
(***************************************************************************)
Feature(nom, poly) == [nom |-> nom, poly |-> poly]

\* The position of the key nom in the dict d, 0 when it is not a key.
Posicion(d, nom) ==
    IF \E i \in 1..Len(d) : d[i].nom = nom
    THEN CHOOSE i \in 1..Len(d) : d[i].nom = nom
    ELSE 0

RECURSIVE DictDe(_, _)
\* The dict comprehension over data['features']: a repeated Name keeps the
\* position of its first feature and the geometry of its last.
DictDe(d, feats) ==
    IF feats = <<>> THEN d
    ELSE LET f == Head(feats)
             i == Posicion(d, f.nom)
         IN DictDe(IF i = 0 THEN Append(d, f) ELSE [d EXCEPT ![i] = f], Tail(feats))

\* A mutant of cargar_concesiones: of a geojson with features only the first
\* is loaded.
cargar_concesiones_primera(archivo) ==
    IF archivo.estado # "ok" \/ archivo.features = <<>> THEN <<>>
    ELSE <<Head(archivo.features)>>

\* cargar_concesiones: the dict of the file, {} when open or json.load or a
\* key of the file raises.
cargar_concesiones(archivo) ==
    IF archivo.estado # "ok" THEN <<>> ELSE DictDe(<<>>, archivo.features)

(***************************************************************************)
(* The steps of main.                                                      *)
(***************************************************************************)
SeqHasta(S, n) == UNION {[1..k -> S] : k \in 0..n}

EsSimulacro(a) == a \in {"test_incendio", "test_prealerta", "test_monitoreo"}

\* A mutant of es_reporte_programado: an or for the and.
es_reporte_programado_o(razon) ==
    \/ razon \in {"automáticamente", "automáticamente (Reporte Diario)"}
    \/ razon \in {"Reporte Diario", "automáticamente (Reporte Diario)"}

\* "automáticamente" in razon and "Reporte Diario" in razon
es_reporte_programado(razon) ==
    /\ razon \in {"automáticamente", "automáticamente (Reporte Diario)"}
    /\ razon \in {"Reporte Diario", "automáticamente (Reporte Diario)"}

Inicio(c) == INICIO_MIN + (c - 1) * INTERVALO_MIN

\* The process has not exited.
SinSalida == 0 - 1

DiscoVacio ==
    [incendios_json |-> [existe |-> FALSE, datos |-> <<>>],
     bitacora |-> <<>>, mapa_diario |-> FALSE, zip |-> FALSE, reportes_html |-> FALSE]

EntornoInicial ==
    [ACTION_TYPE |-> "monitor", FORCE_REPORT |-> FALSE,
     REPORT_REASON |-> "automáticamente", pyproj |-> TRUE]

GeojsonInicial == [estado |-> "falta", features |-> <<>>]

Init ==
    /\ ahora = Inicio(1)
    /\ corrida = 1
    /\ pc = "espera"
    /\ entorno = EntornoInicial
    /\ geojson = GeojsonInicial
    /\ concesiones = <<>>
    /\ sat_i = 1
    /\ lines = <<>>
    /\ leidas = <<>>
    /\ fallos = {}
    /\ puntos = <<>>
    /\ alertas = <<>>
    /\ pre_alertas = <<>>
    /\ img_bytes = "None"
    /\ excepcion = ""
    /\ exit_status = SinSalida
    /\ disco = DiscoVacio
    /\ enviados = <<>>
    /\ traza = <<>>
    /\ alertados = {}
    /\ angle = 0
    /\ card = ""

\* The scheduler starts the script: the environment and the files it finds.
IniciarCorrida(Entornos, Fuentes) ==
    /\ pc = "espera"
    /\ \E e \in Entornos, g \in Fuentes :
          /\ entorno' = e
          /\ geojson' = g
    /\ concesiones' = <<>>
    /\ sat_i' = 1
    /\ lines' = <<>>
    /\ leidas' = <<>>
    /\ fallos' = {}
    /\ puntos' = <<>>
    /\ alertas' = <<>>
    /\ pre_alertas' = <<>>
    /\ img_bytes' = "None"
    /\ enviados' = <<>>
    /\ traza' = <<>>
    /\ excepcion' = ""
    /\ exit_status' = SinSalida
    /\ pc' = "cargar"
    /\ UNCHANGED <<angle, card, ahora, corrida, disco, alertados>>

\* Lines 643-646.
CargarConcesiones ==
    /\ pc = "cargar"
    /\ concesiones' = cargar_concesiones(geojson)
    /\ traza' = Append(traza, "cargar_concesiones")
    /\ pc' = IF EsSimulacro(entorno.ACTION_TYPE) THEN "simulacro" ELSE "descarga"
    /\ UNCHANGED <<excepcion, exit_status, angle, card,
                   ahora, corrida, entorno, geojson, sat_i, lines, leidas, fallos, puntos,
                   alertas, pre_alertas, img_bytes, disco, enviados, alertados>>

\* datetime.utcnow() is read again for every row: the clock moves on while
\* the sources are downloaded and their rows processed.
Tick ==
    /\ pc \in {"descarga", "filas"}
    /\ ahora < Inicio(corrida) + MaxTicks
    /\ ahora' = ahora + 1
    /\ UNCHANGED <<excepcion, exit_status, angle, card,
                   corrida, pc, entorno, geojson, concesiones, sat_i, lines, leidas, fallos,
                   puntos, alertas, pre_alertas, img_bytes, disco, enviados, traza, alertados>>

\* The simulated points of the test modes (lines 653 and 664).
PuntoSimIncendio == Point(1, 1)
PuntoSimPrealerta == Point(3, 1)
ZonaAmortiguamiento == [nulo |-> FALSE, dist2 |-> 0, direction |-> "Zona de Amortiguamiento"]

\* dist_info_test of test_prealerta (lines 666-673): the distance to the first
\* "Paxbán" polygon when there is one and it can be computed.
DistInfoTest(conc, pyproj) ==
    LET es == {i \in 1..Len(conc) : EsPaxban(conc[i].nom)}
    IN IF es = {} THEN ZonaAmortiguamiento
       ELSE LET i == CHOOSE j \in es : \A k \in es : j <= k
                res == calcular_distancia_direccion(PuntoSimPrealerta, conc[i].poly, pyproj)
            IN IF res.nulo THEN ZonaAmortiguamiento ELSE res

\* puntos of a test mode (lines 649-684).
PuntosSimulacro(a, conc, now, pyproj) ==
    LET fecha_sim == [dia |-> <<now \div (24 * MINUTOS_HORA)>>, hora |-> strftime_HM(now)]
    IN IF a = "test_incendio"
       THEN <<[lat |-> PuntoSimIncendio.lat, lon |-> PuntoSimIncendio.lon, color |-> "red",
               alerta |-> TRUE, pre_alerta |-> FALSE, sat |-> "SIMULACRO",
               fecha |-> fecha_sim, horas |-> 1 * MINUTOS_HORA, concesion |-> "Paxbán",
               gtm |-> convertir_a_gtm(PuntoSimIncendio.lon, PuntoSimIncendio.lat, pyproj),
               dist_info |-> None_dist,
               dist_campamento |->
                   calcular_campamento_cercano(PuntoSimIncendio.lon, PuntoSimIncendio.lat, pyproj)]>>
       ELSE IF a = "test_prealerta"
       THEN <<[lat |-> PuntoSimPrealerta.lat, lon |-> PuntoSimPrealerta.lon, color |-> "orange",
               alerta |-> FALSE, pre_alerta |-> TRUE, sat |-> "SIMULACRO",
               fecha |-> fecha_sim, horas |-> 12 * MINUTOS_HORA,
               concesion |-> "Zona de Amortiguamiento",
               gtm |-> convertir_a_gtm(PuntoSimPrealerta.lon, PuntoSimPrealerta.lat, pyproj),
               dist_info |-> DistInfoTest(conc, pyproj),
               dist_campamento |-> NA_campamento]>>
       ELSE <<>>

\* Lines 649-684.
Simulacro ==
    /\ pc = "simulacro"
    /\ puntos' = PuntosSimulacro(entorno.ACTION_TYPE, concesiones, ahora, entorno.pyproj)
    /\ traza' = Append(traza, "recolectar")
    /\ pc' = "guardar"
    /\ UNCHANGED <<excepcion, exit_status, angle, card,
                   ahora, corrida, entorno, geojson, concesiones, sat_i, lines, leidas, fallos,
                   alertas, pre_alertas, img_bytes, disco, enviados, alertados>>

\* The position after the rows of satelites[i]: the next source, or the end
\* of the for loop.
TrasSatelite(i) == IF i < Len(satelites) THEN "descarga" ELSE "guardar"

TrazaTrasSatelite(t, i) == IF i < Len(satelites) THEN t ELSE Append(t, "recolectar")

\* A mutant of TrasFallo: the exception of a download leaves main.
TrasFallo_aborta(i) == "fin"

\* A mutant of TrasFallo: a failed download ends the for loop, as if the try
\* were around the loop.
TrasFallo_termina(i) == "guardar"

\* The position after a download that raised (the except of line 746) or
\* was not a 200: the for loop goes on.
TrasFallo(i) == TrasSatelite(i)

\* session.get for satelites[sat_i] (lines 699-705 and 746-747): it raises,
\* or answers with a status and a text whose first line is the header.
Descargar(Respuestas) ==
    /\ pc = "descarga"
    /\ \E r \in Respuestas :
          /\ Len(r.text) - 1 <= MaxFilas - Len(leidas)
          /\ IF r.lanza \/ r.status_code # 200
             THEN /\ lines' = <<>>
                  /\ fallos' = fallos \cup {sat_i}
                  /\ sat_i' = sat_i + 1
                  /\ pc' = TrasFallo(sat_i)
                  /\ traza' = TrazaTrasSatelite(traza, sat_i)
             ELSE IF Tail(r.text) = <<>>
             THEN /\ lines' = <<>>
                  /\ fallos' = fallos
                  /\ sat_i' = sat_i + 1
                  /\ pc' = TrasSatelite(sat_i)
                  /\ traza' = TrazaTrasSatelite(traza, sat_i)
             ELSE /\ lines' = Tail(r.text)
                  /\ fallos' = fallos
                  /\ sat_i' = sat_i
                  /\ pc' = "filas"
                  /\ traza' = traza
    /\ UNCHANGED <<excepcion, exit_status, angle, card,
                   ahora, corrida, entorno, geojson, concesiones, leidas, puntos,
                   alertas, pre_alertas, img_bytes, disco, enviados, alertados>>

\* One turn of "for line in lines" (lines 706-745).
ProcesarFila ==
    /\ pc = "filas"
    /\ lines # <<>>
    /\ puntos' = TrasFila(puntos, Head(lines), satelites[sat_i], concesiones, ahora,
                          entorno.pyproj)
    /\ leidas' = Append(leidas, [sat |-> satelites[sat_i], d |-> Head(lines)])
    /\ lines' = Tail(lines)
    /\ IF Tail(lines) = <<>>
       THEN /\ sat_i' = sat_i + 1
            /\ pc' = TrasSatelite(sat_i)
            /\ traza' = TrazaTrasSatelite(traza, sat_i)
       ELSE UNCHANGED <<sat_i, pc, traza>>
    /\ UNCHANGED <<excepcion, exit_status, angle, card,
                   ahora, corrida, entorno, geojson, concesiones, fallos,
                   alertas, pre_alertas, img_bytes, disco, enviados, alertados>>

\* A mutant of json_dump: the list is added to what the file held.
json_dump_anexa(lista) == [existe |-> TRUE, datos |-> disco.incendios_json.datos \o lista]

\* json.dump(puntos, f): the file holds the list.
json_dump(lista) == [existe |-> TRUE, datos |-> lista]

\* Line 753.
GuardarJSON ==
    /\ pc = "guardar"
    /\ disco' = [disco EXCEPT !.incendios_json = json_dump(puntos)]
    /\ traza' = Append(traza, "incendios.json")
    /\ pc' = "seleccionar"
    /\ UNCHANGED <<excepcion, exit_status, angle, card,
                   ahora, corrida, entorno, geojson, concesiones, sat_i, lines, leidas, fallos,
                   puntos, alertas, pre_alertas, img_bytes, enviados, alertados>>

\* A mutant of Reciente: the window is open at 1.5 hours.
Reciente_estricto(p) == p.horas < VENTANA_MIN

\* p['horas'] <= 1.5
Reciente(p) == p.horas <= VENTANA_MIN

EsAlertaActiva(p) == p.alerta /\ Reciente(p)

EsPreAlertaActiva(p) == p.pre_alerta /\ Reciente(p)

\* Lines 756-758.
Seleccionar ==
    /\ pc = "seleccionar"
    /\ alertas' = SelectSeq(puntos, EsAlertaActiva)
    /\ pre_alertas' = SelectSeq(puntos, EsPreAlertaActiva)
    /\ traza' = Append(traza, "seleccionar")
    /\ pc' = "mapa"
    /\ UNCHANGED <<excepcion, exit_status, angle, card,
                   ahora, corrida, entorno, geojson, concesiones, sat_i, lines, leidas, fallos,
                   puntos, img_bytes, disco, enviados, alertados>>

\* What generar_mapa_imagen can return: None without pyproj or when drawing
\* raises, else the PNG.
Imagenes(pyproj) == IF pyproj THEN {"PNG", "None"} ELSE {"None"}

\* A mutant of guardar_bitacora: the JSON holds every point of the run.
guardar_bitacora_todos(d, img, tipo, datos_puntos) ==
    IF img = "None" THEN d
    ELSE [d EXCEPT !.bitacora = Append(@, [tipo |-> tipo, datos |-> puntos])]

\* guardar_bitacora: nothing without an image, else the image and the points.
guardar_bitacora(d, img, tipo, datos_puntos) ==
    IF img = "None" THEN d
    ELSE [d EXCEPT !.bitacora = Append(@, [tipo |-> tipo, datos |-> datos_puntos])]

\* A mutant of guardar_mapa_local: the test of line 245 is missing.
guardar_mapa_local_sin_guarda(d, img) == [d EXCEPT !.mapa_diario = TRUE]

\* guardar_mapa_local: nothing without an image, else the map of the day.
guardar_mapa_local(d, img) ==
    IF img = "None" THEN d ELSE [d EXCEPT !.mapa_diario = TRUE]

\* Lines 761-765.
GenerarMapa ==
    /\ pc = "mapa"
    /\ IF alertas # <<>> \/ pre_alertas # <<>> \/ entorno.FORCE_REPORT
       THEN \E img \in Imagenes(entorno.pyproj) :
               /\ img_bytes' = img
               /\ disco' = LET d1 == IF entorno.FORCE_REPORT
                                     THEN guardar_mapa_local(disco, img) ELSE disco
                           IN IF alertas # <<>>
                              THEN guardar_bitacora(d1, img, "alertas", alertas) ELSE d1
       ELSE UNCHANGED <<img_bytes, disco>>
    /\ traza' = Append(traza, "mapa")
    /\ pc' = "enviar"
    /\ UNCHANGED <<excepcion, exit_status, angle, card,
                   ahora, corrida, entorno, geojson, concesiones, sat_i, lines, leidas, fallos,
                   puntos, alertas, pre_alertas, enviados, alertados>>

\* A call of enviar_alerta_telegram or enviar_correo_alerta.
Envio(canal, tipo, focos, img, n) ==
    [canal |-> canal, tipo |-> tipo, focos |-> focos, imagen |-> img, analizados |-> n]

\* A mutant of Prioridad: the pre-alert branch is tested first.
Prioridad_invertida(al, pre, force) ==
    IF pre # <<>> THEN "PRE_ALERTA"
    ELSE IF al # <<>> THEN "ALERTA"
    ELSE IF force THEN "REPORTE" ELSE "NINGUNO"

\* The branch of the if / elif / elif chain of lines 770, 836 and 898.
Prioridad(al, pre, force) ==
    IF al # <<>> THEN "ALERTA"
    ELSE IF pre # <<>> THEN "PRE_ALERTA"
    ELSE IF force THEN "REPORTE" ELSE "NINGUNO"

\* Lines 770-833.
EnviarAlerta ==
    /\ pc = "enviar"
    /\ Prioridad(alertas, pre_alertas, entorno.FORCE_REPORT) = "ALERTA"
    /\ enviados' = enviados \o <<Envio("telegram", "ALERTA", alertas, img_bytes, 0),
                                 Envio("correo", "ALERTA", alertas, img_bytes, 0)>>
    /\ traza' = Append(traza, "enviar")
    /\ pc' = "mensual"
    /\ UNCHANGED <<excepcion, exit_status, angle, card,
                   ahora, corrida, entorno, geojson, concesiones, sat_i, lines, leidas, fallos,
                   puntos, alertas, pre_alertas, img_bytes, disco, alertados>>

\* Lines 836-895.
EnviarPreAlerta ==
    /\ pc = "enviar"
    /\ Prioridad(alertas, pre_alertas, entorno.FORCE_REPORT) = "PRE_ALERTA"
    /\ enviados' = enviados \o <<Envio("telegram", "PRE_ALERTA", pre_alertas, img_bytes, 0),
                                 Envio("correo", "PRE_ALERTA", pre_alertas, img_bytes, 0)>>
    /\ traza' = Append(traza, "enviar")
    /\ pc' = "mensual"
    /\ UNCHANGED <<excepcion, exit_status, angle, card,
                   ahora, corrida, entorno, geojson, concesiones, sat_i, lines, leidas, fallos,
                   puntos, alertas, pre_alertas, img_bytes, disco, alertados>>

\* Lines 898-984.
EnviarReporte ==
    /\ pc = "enviar"
    /\ Prioridad(alertas, pre_alertas, entorno.FORCE_REPORT) = "REPORTE"
    /\ enviados' = IF es_reporte_programado(entorno.REPORT_REASON) THEN enviados
                   ELSE enviados \o
                        <<Envio("telegram", "REPORTE", <<>>, img_bytes, Len(puntos)),
                          Envio("correo", "REPORTE", <<>>, img_bytes, Len(puntos))>>
    /\ traza' = Append(traza, "enviar")
    /\ pc' = "mensual"
    /\ UNCHANGED <<excepcion, exit_status, angle, card,
                   ahora, corrida, entorno, geojson, concesiones, sat_i, lines, leidas, fallos,
                   puntos, alertas, pre_alertas, img_bytes, disco, alertados>>

\* No branch of the chain is taken.
SinEnvio ==
    /\ pc = "enviar"
    /\ Prioridad(alertas, pre_alertas, entorno.FORCE_REPORT) = "NINGUNO"
    /\ traza' = Append(traza, "enviar")
    /\ pc' = "mensual"
    /\ UNCHANGED <<excepcion, exit_status, angle, card,
                   ahora, corrida, entorno, geojson, concesiones, sat_i, lines, leidas, fallos,
                   puntos, alertas, pre_alertas, img_bytes, disco, enviados, alertados>>

\* Lines 987-988: generar_reporte_mensual writes the ZIP and mails it.
ReporteMensual ==
    /\ pc = "mensual"
    /\ IF entorno.ACTION_TYPE = "reporte_mensual"
       THEN /\ disco' = [disco EXCEPT !.zip = TRUE]
            /\ enviados' = Append(enviados, Envio("correo", "MENSUAL", <<>>, "None", 0))
            /\ traza' = Append(traza, "mensual")
       ELSE UNCHANGED <<disco, enviados, traza>>
    /\ pc' = "galeria"
    /\ UNCHANGED <<excepcion, exit_status, angle, card,
                   ahora, corrida, entorno, geojson, concesiones, sat_i, lines, leidas, fallos,
                   puntos, alertas, pre_alertas, img_bytes, alertados>>

\* Line 991, and the return of main at line 995: the process exits with 0.
GenerarGaleria ==
    /\ pc = "galeria"
    /\ disco' = [disco EXCEPT !.reportes_html = TRUE]
    /\ traza' = Append(traza, "galeria")
    /\ pc' = "fin"
    /\ exit_status' = 0
    /\ UNCHANGED <<excepcion, angle, card,
                   ahora, corrida, entorno, geojson, concesiones, sat_i, lines, leidas, fallos,
                   puntos, alertas, pre_alertas, img_bytes, enviados, alertados>>

\* What identifies a detection from one download to the next.
Clave(p) == [lat |-> p.lat, lon |-> p.lon, sat |-> p.sat, fecha |-> p.fecha]

Claves(s) == {Clave(s[i]) : i \in 1..Len(s)}

\* The next scheduled run starts one hour after this one.
SiguienteCorrida ==
    /\ pc = "fin"
    /\ corrida < MaxCorridas
    /\ corrida' = corrida + 1
    /\ ahora' = Inicio(corrida + 1)
    /\ alertados' = alertados \cup Claves(alertas) \cup Claves(pre_alertas)
    /\ pc' = "espera"
    /\ UNCHANGED <<excepcion, exit_status, angle, card,
                   entorno, geojson, concesiones, sat_i, lines, leidas, fallos, puntos,
                   alertas, pre_alertas, img_bytes, disco, enviados, traza>>

(***************************************************************************)
(* The inputs the runs are checked on.                                     *)
(***************************************************************************)
R1 == Rect(0, 2, 0, 2)
R2 == Rect(2, 4, 0, 2)

Falta == [estado |-> "falta", features |-> <<>>]
Corrupto == [estado |-> "corrupto", features |-> <<>>]
Archivo(feats) == [estado |-> "ok", features |-> feats]

\* A data row of the FIRMS CSV: latitude, longitude, brightness, scan, track,
\* acq_date, acq_time.
Fila(pt, dia, hhmm) ==
    <<Num(pt.lat), Num(pt.lon), Num(300), Num(1), Num(1), Fecha(dia), Dig(hhmm)>>

Cabecera == <<Txt, Txt, Txt, Txt, Txt, Txt, Txt>>

\* Rows that raise: the time column is missing, the latitude is no number,
\* the time is no time of day.
FilaTruncada == <<Num(1), Num(1), Num(300), Num(1), Num(1), Fecha(0)>>
FilaSinNumero == <<Txt, Num(1), Num(300), Num(1), Num(1), Fecha(0), Dig(<<0, 2, 4, 5>>)>>
FilaSinHora == <<Num(1), Num(1), Num(300), Num(1), Num(1), Fecha(0), Dig(<<2, 4, 0, 0>>)>>

FilasMalas == {FilaTruncada, FilaSinNumero, FilaSinHora}

\* Inside R1 and in its buffer.
PuntosSpec == {Point(1, 1), Point(3, 1)}

\* Acquired 2 h, 1.5 h and 15 min before the first run.
HorasSpec == {<<0, 1, 0, 0>>, <<0, 1, 3, 0>>, <<0, 2, 4, 5>>}

\* The point inside at the three ages, the point of the buffer at the oldest
\* and at the newest, and a row that raises.
FilasSpec ==
    ({Fila(pt, 0, h) : pt \in PuntosSpec, h \in HorasSpec}
        \ {Fila(Point(3, 1), 0, <<0, 1, 3, 0>>)}) \cup {FilaTruncada}

Respuesta(lanza, status, filas) ==
    [lanza |-> lanza, status_code |-> status, text |-> <<Cabecera>> \o filas]

RespuestasDe(Filas) ==
    {Respuesta(TRUE, 0, <<>>), Respuesta(FALSE, 500, <<>>)}
        \cup {Respuesta(FALSE, 200, fs) : fs \in SeqHasta(Filas, MaxFilas)}

FuentesSpec ==
    {Falta, Corrupto, Archivo(<<>>), Archivo(<<Feature("Paxbán", R1)>>),
     Archivo(<<Feature("Uaxactún", R1)>>)}

Acciones == {"monitor", "test_incendio", "test_prealerta", "test_monitoreo", "reporte_mensual"}

\* REPORT_REASON is read only under FORCE_REPORT: without it the default
\* stands.  The runs without pyproj are those without a forced report, the
\* monthly report is asked for on its own.
EntornosSpec ==
    {[ACTION_TYPE |-> a, FORCE_REPORT |-> FALSE, REPORT_REASON |-> "automáticamente",
      pyproj |-> y] : a \in Acciones \ {"reporte_mensual"}, y \in BOOLEAN}
        \cup
    {[ACTION_TYPE |-> a, FORCE_REPORT |-> TRUE, REPORT_REASON |-> r, pyproj |-> TRUE] :
        a \in Acciones \ {"reporte_mensual"},
        r \in {"automáticamente", "automáticamente (Reporte Diario)"}}
        \cup
    {[ACTION_TYPE |-> "reporte_mensual", FORCE_REPORT |-> FALSE,
      REPORT_REASON |-> "automáticamente", pyproj |-> TRUE]}

Next ==
    \/ IniciarCorrida(EntornosSpec, FuentesSpec)
    \/ CargarConcesiones
    \/ Simulacro
    \/ Descargar(RespuestasDe(FilasSpec))
    \/ ProcesarFila
    \/ GuardarJSON
    \/ Seleccionar
    \/ GenerarMapa
    \/ EnviarAlerta
    \/ EnviarPreAlerta
    \/ EnviarReporte
    \/ SinEnvio
    \/ ReporteMensual
    \/ GenerarGaleria

\* One run of the script, on any environment and any download.
Spec == Init /\ [][Next]_vars

(***************************************************************************)
(* The classification of one row, on every geojson of the grid.            *)
(***************************************************************************)
Nombres == {"Paxbán", "Paxbán Sur", "Uaxactún"}

RectsGrid ==
    {Rect(w[1], w[2], 0, 2) : w \in {v \in (0..MaxCoord) \X (0..MaxCoord) : v[1] < v[2]}}

FuentesGrid ==
    {Archivo(fs) : fs \in SeqHasta({Feature(n, r) : n \in Nombres, r \in RectsGrid}, MaxAreas)}

PuntosGrid == {Point(x, y) : x \in 0..MaxCoord, y \in 0..MaxLat}

\* main at the first row of the first source, the areas loaded.
InitClasificar ==
    /\ ahora = Inicio(1)
    /\ corrida = 1
    /\ pc = "filas"
    /\ entorno = EntornoInicial
    /\ \E g \in FuentesGrid :
          /\ geojson = g
          /\ concesiones = cargar_concesiones(g)
    /\ sat_i = 1
    /\ \E pt \in PuntosGrid : lines = <<Fila(pt, 0, <<0, 2, 4, 5>>)>>
    /\ leidas = <<>>
    /\ fallos = {}
    /\ puntos = <<>>
    /\ alertas = <<>>
    /\ pre_alertas = <<>>
    /\ img_bytes = "None"
    /\ excepcion = ""
    /\ exit_status = SinSalida
    /\ disco = DiscoVacio
    /\ enviados = <<>>
    /\ traza = <<"cargar_concesiones">>
    /\ alertados = {}
    /\ angle = 0
    /\ card = ""

NextClasificar == ProcesarFila

SpecClasificar == InitClasificar /\ [][NextClasificar]_vars

(***************************************************************************)
(* Successive scheduled runs, one hour apart, the clock moving inside a    *)
(* run.                                                                    *)
(***************************************************************************)
EntornosHorario == {EntornoInicial}

FuentesHorario == {Archivo(<<Feature("Paxbán", R1)>>)}

\* Acquired at 02:45 and 03:45 of day 0.
HorasHorario == {<<0, 2, 4, 5>>, <<0, 3, 4, 5>>}

\* The feed holds the detections acquired so far.
FilasHorario ==
    {f \in {Fila(pt, 0, h) : pt \in PuntosSpec, h \in HorasHorario} :
        strptime(f[6], f[7]) <= ahora}

NextHorario ==
    \/ IniciarCorrida(EntornosHorario, FuentesHorario)
    \/ CargarConcesiones
    \/ Tick
    \/ Descargar(RespuestasDe(FilasHorario))
    \/ ProcesarFila
    \/ GuardarJSON
    \/ Seleccionar
    \/ GenerarMapa
    \/ EnviarAlerta
    \/ EnviarPreAlerta
    \/ SinEnvio
    \/ ReporteMensual
    \/ GenerarGaleria
    \/ SiguienteCorrida

SpecHorario == Init /\ [][NextHorario]_vars

(***************************************************************************)
(* The batch of one source, on rows of every shape.                        *)
(***************************************************************************)
MaxLote == 3        \* rows of the batch

FilaVacia == <<Txt>>
FilaSinLongitud == <<Num(1), Txt, Num(300), Num(1), Num(1), Fecha(0), Dig(<<0, 2, 4, 5>>)>>
FilaHoraTexto == <<Num(1), Num(1), Num(300), Num(1), Num(1), Fecha(0), Txt>>

\* Two rows with a time of four digits, one with a time of three, and the
\* rows that raise.
FilasLote ==
    {Fila(Point(1, 1), 0, <<0, 2, 4, 5>>), Fila(Point(3, 1), 0, <<0, 1, 0, 0>>),
     Fila(Point(1, 1), 0, <<2, 4, 5>>)}
        \cup FilasMalas \cup {FilaVacia, FilaSinLongitud, FilaHoraTexto}

\* main at the first row of a response, the areas loaded.
InitLote ==
    /\ ahora = Inicio(1)
    /\ corrida = 1
    /\ pc = "filas"
    /\ entorno = EntornoInicial
    /\ geojson = Archivo(<<Feature("Paxbán", R1)>>)
    /\ concesiones = cargar_concesiones(geojson)
    /\ sat_i \in 1..Len(satelites)
    /\ lines \in SeqHasta(FilasLote, MaxLote) \ {<<>>}
    /\ leidas = <<>>
    /\ fallos = 1..(sat_i - 1)
    /\ puntos = <<>>
    /\ alertas = <<>>
    /\ pre_alertas = <<>>
    /\ img_bytes = "None"
    /\ excepcion = ""
    /\ exit_status = SinSalida
    /\ disco = DiscoVacio
    /\ enviados = <<>>
    /\ traza = <<"cargar_concesiones">>
    /\ alertados = {}
    /\ angle = 0
    /\ card = ""

NextLote == ProcesarFila

SpecLote == InitLote /\ [][NextLote]_vars

(***************************************************************************)
(* What the properties speak of.                                           *)
(***************************************************************************)
Registros == {puntos[i] : i \in 1..Len(puntos)}

AreasPaxban == {k \in 1..Len(concesiones) : EsPaxban(concesiones[k].nom)}

Lugar(r) == Point(r.lon, r.lat)

\* The run is past the selection of lines 756-758.
Seleccionado == pc \in {"mapa", "enviar", "mensual", "galeria", "fin"}

\* The run is past the if / elif chain of the notifications.
Despachado == pc \in {"mensual", "galeria", "fin"}

ActivaConfirmada(r) == r.alerta /\ r.horas * 10 <= 15 * MINUTOS_HORA

ActivaPreAlerta(r) == r.pre_alerta /\ r.horas * 10 <= 15 * MINUTOS_HORA

EnviosDe(tipo) == {i \in 1..Len(enviados) : enviados[i].tipo = tipo}

\* A dispatch of the alert chain was made: the run ends NOTIFIED.
Notificado == EnviosDe("ALERTA") \cup EnviosDe("PRE_ALERTA") \cup EnviosDe("REPORTE") # {}

GuardadoEnEstaCorrida == \E i \in 1..Len(traza) : traza[i] = "incendios.json"

\* The row has its fields, numeric coordinates and a timestamp that parses.
BienFormada(l) ==
    /\ Len(l.d) >= 7
    /\ EsFloat(l.d[1]) /\ EsFloat(l.d[2])
    /\ strptime_ok(l.d[6], l.d[7])

(***************************************************************************)
(* C1.  The record of a detection is never in two tiers: alerta and        *)
(* pre_alerta are never both true, whatever the areas of the geojson.      *)
(***************************************************************************)
C1_UnSoloNivel == \A r \in Registros : ~(r.alerta /\ r.pre_alerta)

(***************************************************************************)
(* C2.  Strict priority.  With an active CONFIRMED record the alert is     *)
(* dispatched, lists exactly the active CONFIRMED records and no pre-alert *)
(* is dispatched; else with an active PRE_ALERT record the pre-alert is    *)
(* dispatched; else neither is.                                            *)
(***************************************************************************)
C2_Prioridad ==
    Despachado =>
        LET conf == SelectSeq(puntos, ActivaConfirmada)
            pre == SelectSeq(puntos, ActivaPreAlerta)
        IN IF conf # <<>>
           THEN /\ EnviosDe("ALERTA") # {}
                /\ \A i \in EnviosDe("ALERTA") : enviados[i].focos = conf
                /\ EnviosDe("PRE_ALERTA") = {}
           ELSE IF pre # <<>>
           THEN /\ EnviosDe("PRE_ALERTA") # {}
                /\ \A i \in EnviosDe("PRE_ALERTA") : enviados[i].focos = pre
                /\ EnviosDe("ALERTA") = {}
           ELSE EnviosDe("ALERTA") = {} /\ EnviosDe("PRE_ALERTA") = {}

\* A fresh CONFIRMED and a fresh PRE_ALERT record in one batch: the alert went out.
C2_Testigo ==
    /\ pc = "fin"
    /\ \E r \in Registros : ActivaConfirmada(r)
    /\ \E r \in Registros : ActivaPreAlerta(r)
    /\ EnviosDe("ALERTA") # {}

(***************************************************************************)
(* C3.  Freshness.  Every record, whatever its age, is in incendios.json;  *)
(* a record is in the active subset of its tier exactly when its age is    *)
(* at most 1.5 h; with no active record neither alert is dispatched.       *)
(***************************************************************************)
C3_Frescura ==
    /\ Seleccionado =>
          /\ disco.incendios_json.existe
          /\ disco.incendios_json.datos = puntos
          /\ \A r \in Registros :
                /\ (\E i \in 1..Len(alertas) : alertas[i] = r)
                       <=> (r.alerta /\ r.horas * 10 <= 15 * MINUTOS_HORA)
                /\ (\E i \in 1..Len(pre_alertas) : pre_alertas[i] = r)
                       <=> (r.pre_alerta /\ r.horas * 10 <= 15 * MINUTOS_HORA)
    /\ (Despachado /\ \A r \in Registros : r.horas * 10 > 15 * MINUTOS_HORA)
          => EnviosDe("ALERTA") = {} /\ EnviosDe("PRE_ALERTA") = {}

\* A CONFIRMED record of age 2 h, alone: archived, and nothing dispatched.
C3_Testigo ==
    /\ pc = "fin"
    /\ Len(puntos) = 1
    /\ puntos[1].alerta /\ puntos[1].horas = 2 * MINUTOS_HORA
    /\ disco.incendios_json.datos = puntos
    /\ enviados = <<>>

(***************************************************************************)
(* C4.  No re-alerting: a detection that was in the active subset of an    *)
(* earlier run is in the active subset of no later run.                    *)
(***************************************************************************)
C4_SinReAlerta ==
    Seleccionado => (Claves(alertas) \cup Claves(pre_alertas)) \cap alertados = {}

(***************************************************************************)
(* C5.  Inclusive boundary: a detection on an edge or a vertex of a core   *)
(* polygon is CONFIRMED.                                                   *)
(***************************************************************************)
C5_BordeConfirmado ==
    \A r \in Registros : \A k \in AreasPaxban :
        EnBorde(concesiones[k].poly, Lugar(r)) => (r.alerta /\ ~r.pre_alerta)

(***************************************************************************)
(* C6.  A geojson that is missing, malformed or without features aborts    *)
(* the run: no row is classified, no snapshot written, no selection made.  *)
(***************************************************************************)
C6_FalloCargaFatal ==
    (pc # "espera" /\ (geojson.estado # "ok" \/ geojson.features = <<>>))
        => /\ puntos = <<>>
           /\ ~GuardadoEnEstaCorrida
           /\ ~Seleccionado

(***************************************************************************)
(* C7.  Malformed rows: a row that has too few fields, a coordinate that   *)
(* is no number or a timestamp that does not parse adds no record, and     *)
(* the records of the batch are those of its well-formed rows, in order.   *)
(***************************************************************************)
C7_FilasMalformadas ==
    LET buenas == SelectSeq(leidas, BienFormada)
    IN /\ Len(puntos) = Len(buenas)
       /\ \A i \in 1..Len(buenas) :
             /\ puntos[i].lat = float(buenas[i].d[1])
             /\ puntos[i].lon = float(buenas[i].d[2])
             /\ puntos[i].fecha = TextoFecha(buenas[i].d[6], buenas[i].d[7])
             /\ puntos[i].sat = buenas[i].sat

\* A batch of three rows, the one in the middle without its time column.
C7_Testigo ==
    /\ lines = <<>>
    /\ Len(leidas) = 3
    /\ leidas[2].d = FilaTruncada
    /\ BienFormada(leidas[1]) /\ BienFormada(leidas[3])
    /\ Len(puntos) = 2

(***************************************************************************)
(* C8.  The run state machine.  As claimed: a run collects and classifies, *)
(* selects, and ends NOTIFIED whenever there is an active record or the    *)
(* forced report is asked for, ARCHIVED_ONLY otherwise.                    *)
(***************************************************************************)
OrdenDeFases ==
    SelectSeq(traza, LAMBDA x : x # "mensual")
        = <<"cargar_concesiones", "recolectar", "incendios.json", "seleccionar",
            "mapa", "enviar", "galeria">>

HayActivas == \E r \in Registros : ActivaConfirmada(r) \/ ActivaPreAlerta(r)

RazonProgramada == entorno.REPORT_REASON = "automáticamente (Reporte Diario)"

C9_InstantaneaSiempre ==
    /\ pc = "fin" => /\ GuardadoEnEstaCorrida
                     /\ disco.incendios_json = [existe |-> TRUE, datos |-> puntos]
    /\ enviados # <<>> => GuardadoEnEstaCorrida

\* No area loaded, the three downloads failed: an empty list was written.
C9_Testigo ==
    /\ pc = "fin"
    /\ geojson.estado = "falta"
    /\ fallos = 1..Len(satelites)
    /\ disco.incendios_json = [existe |-> TRUE, datos |-> <<>>]
    /\ enviados # <<>>

(***************************************************************************)
(* C10.  The annulus of one core area: with a single core area, a record   *)
(* is CONFIRMED exactly when the polygon contains the point, PRE_ALERT     *)
(* exactly when the point is within the buffer distance and not inside,    *)
(* and never both.                                                         *)
(***************************************************************************)
C10_Anillo ==
    Cardinality(AreasPaxban) = 1 =>
        \A r \in Registros : \A k \in AreasPaxban :
            /\ ~(r.alerta /\ r.pre_alerta)
            /\ r.alerta <=> contains(concesiones[k].poly, Lugar(r))
            /\ r.pre_alerta <=> /\ EnBuffer(concesiones[k].poly, Lugar(r))
                                /\ ~contains(concesiones[k].poly, Lugar(r))

\* A point inside the only core area, so also within its buffer distance.
C10_Testigo ==
    /\ Cardinality(AreasPaxban) = 1
    /\ \E r \in Registros : \E k \in AreasPaxban :
          /\ contains(concesiones[k].poly, Lugar(r))
          /\ EnBuffer(concesiones[k].poly, Lugar(r))
          /\ r.alerta /\ ~r.pre_alerta

(***************************************************************************)
(* C11.  A CONFIRMED record carries no boundary distance: alerta implies   *)
(* dist_info is None, and dist_info is set only on PRE_ALERT records.      *)
(***************************************************************************)
C11_ConfirmadoSinDistancia ==
    \A r \in Registros :
        /\ r.alerta => r.dist_info.nulo
        /\ ~r.dist_info.nulo => r.pre_alerta

(***************************************************************************)
(* One row acquired at 00:00 of day 0, processed at every minute of the    *)
(* following hours: the age and the colour of its record.                  *)
(***************************************************************************)
MaxEdadHoras == 73   \* oldest age at which the row is processed, in hours

InitEdad ==
    /\ ahora \in 0..(MaxEdadHoras * MINUTOS_HORA)
    /\ corrida = 1
    /\ pc = "filas"
    /\ entorno = EntornoInicial
    /\ geojson = Archivo(<<Feature("Paxbán", R1)>>)
    /\ concesiones = cargar_concesiones(geojson)
    /\ sat_i = 1
    /\ lines = <<Fila(Point(1, 1), 0, <<0, 0, 0, 0>>)>>
    /\ leidas = <<>>
    /\ fallos = {}
    /\ puntos = <<>>
    /\ alertas = <<>>
    /\ pre_alertas = <<>>
    /\ img_bytes = "None"
    /\ excepcion = ""
    /\ exit_status = SinSalida
    /\ disco = DiscoVacio
    /\ enviados = <<>>
    /\ traza = <<"cargar_concesiones">>
    /\ alertados = {}
    /\ angle = 0
    /\ card = ""

NextEdad == ProcesarFila

SpecEdad == InitEdad /\ [][NextEdad]_vars

(***************************************************************************)
(* C12.  The colour is a function of the age with breakpoints at 24, 48    *)
(* and 72 hours, each closing its bucket: red, orange, yellow, and a       *)
(* bucket of its own beyond 72 hours.                                      *)
(***************************************************************************)
C12_CuatroTramos ==
    \A r \in Registros :
        /\ r.horas <= 24 * MINUTOS_HORA => r.color = "red"
        /\ (24 * MINUTOS_HORA < r.horas /\ r.horas <= 48 * MINUTOS_HORA) => r.color = "orange"
        /\ (48 * MINUTOS_HORA < r.horas /\ r.horas <= 72 * MINUTOS_HORA) => r.color = "yellow"
        /\ r.horas > 72 * MINUTOS_HORA => r.color \notin {"red", "orange", "yellow"}

(***************************************************************************)
(* The bearing of calcular_campamento_cercano (lines 139-150).  Angles are *)
(* counted in half-degrees, so 22.5 degrees is 45.                         *)
(***************************************************************************)
\* What math.degrees(math.atan2(dy, dx)) can return: -180 to 180 degrees.
AngulosAtan2 == (0 - 2 * 180)..(2 * 180)

\* if angle < 0: angle += 360
Normalizado(a) == IF a < 0 THEN a + 2 * 360 ELSE a

\* A mutant of Cardinal: every interval is open below and closed above.
Cardinal_cerrado_arriba(a) ==
    IF 675 < a \/ a <= 45 THEN "al Este"
    ELSE IF 45 < a /\ a <= 135 THEN "al Noreste"
    ELSE IF 135 < a /\ a <= 225 THEN "al Norte"
    ELSE IF 225 < a /\ a <= 315 THEN "al Noroeste"
    ELSE IF 315 < a /\ a <= 405 THEN "al Oeste"
    ELSE IF 405 < a /\ a <= 495 THEN "al Suroeste"
    ELSE IF 495 < a /\ a <= 585 THEN "al Sur"
    ELSE "al Sureste"

\* The if / elif chain of lines 142-150.
Cardinal(a) ==
    IF 675 <= a \/ a < 45 THEN "al Este"
    ELSE IF 45 <= a /\ a < 135 THEN "al Noreste"
    ELSE IF 135 <= a /\ a < 225 THEN "al Norte"
    ELSE IF 225 <= a /\ a < 315 THEN "al Noroeste"
    ELSE IF 315 <= a /\ a < 405 THEN "al Oeste"
    ELSE IF 405 <= a /\ a < 495 THEN "al Suroeste"
    ELSE IF 495 <= a /\ a < 585 THEN "al Sur"
    ELSE "al Sureste"

\* calcular_campamento_cercano after the nearest facility is found, on every
\* bearing atan2 can return.
InitOctante ==
    /\ ahora = Inicio(1)
    /\ corrida = 1
    /\ pc = "filas"
    /\ entorno = EntornoInicial
    /\ geojson = Archivo(<<Feature("Paxbán", R1)>>)
    /\ concesiones = cargar_concesiones(geojson)
    /\ sat_i = 1
    /\ lines = <<Fila(Point(1, 1), 0, <<0, 2, 4, 5>>)>>
    /\ leidas = <<>>
    /\ fallos = {}
    /\ puntos = <<>>
    /\ alertas = <<>>
    /\ pre_alertas = <<>>
    /\ img_bytes = "None"
    /\ excepcion = ""
    /\ exit_status = SinSalida
    /\ disco = DiscoVacio
    /\ enviados = <<>>
    /\ traza = <<"cargar_concesiones">>
    /\ alertados = {}
    /\ angle \in AngulosAtan2
    /\ card = ""

\* Lines 140-150.
AsignarCardinal ==
    /\ card = ""
    /\ angle' = Normalizado(angle)
    /\ card' = Cardinal(angle')
    /\ UNCHANGED <<ahora, corrida, pc, entorno, geojson, concesiones, sat_i, lines, leidas,
                   fallos, puntos, alertas, pre_alertas, img_bytes, disco, enviados, traza,
                   alertados, excepcion, exit_status>>

NextOctante == AsignarCardinal

SpecOctante == InitOctante /\ [][NextOctante]_vars

\* The eight octants, counter-clockwise from the east.
Octantes ==
    <<"al Este", "al Noreste", "al Norte", "al Noroeste",
      "al Oeste", "al Suroeste", "al Sur", "al Sureste">>

(***************************************************************************)
(* C13.  Every bearing of [0, 360) falls in exactly one octant of 45       *)
(* degrees, closed below and open above, the first one centred on the      *)
(* east: 22.5 and 45 are Noreste, 90 Norte, 135 Noroeste, 180 Oeste,       *)
(* 225 Suroeste, 270 Sur, 315 Sureste.                                     *)
(***************************************************************************)
C13_Octantes ==
    card # "" =>
        /\ angle \in 0..(2 * 360 - 1)
        /\ card = Octantes[((angle + 45) % (2 * 360)) \div 90 + 1]
        /\ angle \in {45, 2 * 45} => card = "al Noreste"
        /\ angle = 2 * 90 => card = "al Norte"
        /\ angle = 2 * 135 => card = "al Noroeste"
        /\ angle = 2 * 180 => card = "al Oeste"
        /\ angle = 2 * 225 => card = "al Suroeste"
        /\ angle = 2 * 270 => card = "al Sur"
        /\ angle = 2 * 315 => card = "al Sureste"

\* The bearing of exactly 22.5 degrees was given its octant.
C13_Testigo == angle = 45 /\ card = "al Noreste"

\* The records of the snapshot on disk: those of the previous run until this
\* run writes its own.
EnDisco == {disco.incendios_json.datos[i] : i \in 1..Len(disco.incendios_json.datos)}

(***************************************************************************)
(* C14.  Determinism: two records made from the same raw row of the same   *)
(* source against the same areas are identical, whether they were made in  *)
(* two runs or at two moments of one run.                                  *)
(***************************************************************************)
C14_Determinista ==
    \A r \in Registros : \A q \in Registros \cup EnDisco :
        Clave(r) = Clave(q) => r = q

(***************************************************************************)
(* The classification stated from the geometry alone.                      *)
(***************************************************************************)
\* Position in the registry of the first core area that contains the place,
\* one past the end when none does.
PrimeraQueContiene(lugar) ==
    LET cs == {k \in AreasPaxban : contains(concesiones[k].poly, lugar)}
    IN IF cs = {} THEN Len(concesiones) + 1 ELSE CHOOSE k \in cs : \A j \in cs : k <= j

\* A core area examined by the loop has the place within its buffer distance.
CercaAntes(lugar) ==
    \E k \in AreasPaxban :
        k < PrimeraQueContiene(lugar) /\ EnBuffer(concesiones[k].poly, lugar)

NivelEsperado(lugar) ==
    LET dentro == PrimeraQueContiene(lugar) <= Len(concesiones)
    IN [alerta |-> dentro,
        pre_alerta |-> CercaAntes(lugar),
        concesion |-> IF dentro THEN "Paxbán"
                      ELSE IF CercaAntes(lugar) THEN "Zona de Amortiguamiento"
                      ELSE "Externa"]

NivelDe(r) == [alerta |-> r.alerta, pre_alerta |-> r.pre_alerta, concesion |-> r.concesion]

(***************************************************************************)
(* C15.  The classification of a row is a function of its coordinates and  *)
(* of the areas: it does not depend on the source that supplied the row    *)
(* nor on the rows processed before it, so two records of one place have   *)
(* the same flags and matched area in whatever order they were merged.     *)
(***************************************************************************)
C15_SoloGeometria ==
    ~EsSimulacro(entorno.ACTION_TYPE) =>
        /\ \A r \in Registros : NivelDe(r) = NivelEsperado(Lugar(r))
        /\ \A r, q \in Registros : Lugar(r) = Lugar(q) => NivelDe(r) = NivelDe(q)

\* A PRE_ALERT row of one source, then a CONFIRMED row of another.
C15_Testigo ==
    /\ Len(puntos) = 2
    /\ puntos[1].sat # puntos[2].sat
    /\ puntos[1].pre_alerta /\ ~puntos[1].alerta
    /\ puntos[2].alerta /\ ~puntos[2].pre_alerta

(***************************************************************************)
(* Successive scheduled runs, each one taken at the instant it starts.     *)
(***************************************************************************)
\* The feed holds the detections acquired so far: two of the place inside,
\* one of the place in the buffer.
FilasCorridas == FilasHorario \ {Fila(Point(3, 1), 0, <<0, 3, 4, 5>>)}

\* A response carries at most one detection.
RespuestasCorridas == {r \in RespuestasDe(FilasCorridas) : Len(r.text) <= 2}

NextCorridas ==
    \/ IniciarCorrida(EntornosHorario, FuentesHorario)
    \/ CargarConcesiones
    \/ Descargar(RespuestasCorridas)
    \/ ProcesarFila
    \/ GuardarJSON
    \/ Seleccionar
    \/ GenerarMapa
    \/ EnviarAlerta
    \/ EnviarPreAlerta
    \/ SinEnvio
    \/ ReporteMensual
    \/ GenerarGaleria
    \/ SiguienteCorrida

SpecCorridas == Init /\ [][NextCorridas]_vars

(***************************************************************************)
(* C16.  The snapshot is overwritten: once a run has written it,           *)
(* incendios.json holds exactly the records that run collected, in the     *)
(* order of collection, whatever earlier runs had written.                 *)
(***************************************************************************)
C16_Sobrescrita ==
    GuardadoEnEstaCorrida =>
        /\ disco.incendios_json.existe
        /\ disco.incendios_json.datos = puntos

\* The first run collected an active detection, the second collected no
\* row at all: the snapshot is empty.
C16_Testigo ==
    /\ corrida = 2
    /\ pc = "fin"
    /\ alertados # {}
    /\ puntos = <<>>
    /\ disco.incendios_json = [existe |-> TRUE, datos |-> <<>>]

\* The run is past the for loop over the sources.
Recolectado == pc \in {"guardar", "seleccionar", "mapa", "enviar", "mensual", "galeria", "fin"}

(***************************************************************************)
(* C17.  A failed download is contained: the source that raised or did not *)
(* answer 200 adds no record, the records of the other sources are those   *)
(* of their well-formed rows, in order, and the loop goes on to the last   *)
(* source.                                                                 *)
(***************************************************************************)
C17_FalloContenido ==
    ~EsSimulacro(entorno.ACTION_TYPE) =>
        LET buenas == SelectSeq(leidas, BienFormada)
        IN /\ \A i \in fallos : \A r \in Registros : r.sat # satelites[i]
           /\ Len(puntos) = Len(buenas)
           /\ \A i \in 1..Len(buenas) :
                 /\ puntos[i].sat = buenas[i].sat
                 /\ Lugar(puntos[i]) = Point(float(buenas[i].d[2]), float(buenas[i].d[1]))
           /\ pc \in {"descarga", "filas"} => fallos \subseteq 1..(sat_i - 1)
           /\ Recolectado => sat_i = Len(satelites) + 1

\* The second source failed between two sources that gave a record each.
C17_Testigo ==
    /\ pc = "fin"
    /\ fallos = {2}
    /\ Len(puntos) = 2
    /\ puntos[1].sat = satelites[1]
    /\ puntos[2].sat = satelites[3]

\* The row has its seven fields, numeric coordinates and a date.
CoordenadasYFecha(l) ==
    /\ Len(l.d) >= 7
    /\ EsFloat(l.d[1]) /\ EsFloat(l.d[2])
    /\ l.d[6].tipo = "fecha"

(***************************************************************************)
(* C18.  A row with valid coordinates and date whose time field does not   *)
(* parse is kept: it yields a record, dated at 00:00 of its acquisition    *)
(* date.                                                                   *)
(***************************************************************************)
C18_MedianochePorDefecto ==
    LET validas == SelectSeq(leidas, CoordenadasYFecha)
    IN /\ Len(puntos) = Len(validas)
       /\ \A i \in 1..Len(validas) :
             ~strptime_ok(validas[i].d[6], validas[i].d[7])
                 => puntos[i].horas = ahora - validas[i].d[6].val[1] * 24 * MINUTOS_HORA

(***************************************************************************)
(* C19.  First match wins: a record is CONFIRMED exactly when a core area  *)
(* contains its place, and the area it reports is then the name of the     *)
(* first core area, in the order of the registry, that contains it.        *)
(***************************************************************************)
C19_PrimeraCoincidencia ==
    \A r \in Registros :
        /\ r.alerta <=> \E k \in AreasPaxban : contains(concesiones[k].poly, Lugar(r))
        /\ r.alerta => r.concesion = concesiones[PrimeraQueContiene(Lugar(r))].nom

(***************************************************************************)
(* C20.  Without the projection the record is still made: its gtm is the   *)
(* text "No disponible", and its flags are those the geometry gives, the   *)
(* same as with the projection present.                                    *)
(***************************************************************************)
C20_SinProyeccion ==
    (~entorno.pyproj /\ ~EsSimulacro(entorno.ACTION_TYPE)) =>
        /\ Len(puntos) = Len(SelectSeq(leidas, BienFormada))
        /\ \A r \in Registros :
              /\ r.gtm = NoDisponible
              /\ NivelDe(r) = NivelEsperado(Lugar(r))
              /\ LET c == Clasificar(concesiones, Lugar(r), TRUE)
                 IN r.alerta = c.en_paxban /\ r.pre_alerta = c.en_prealerta

\* Without pyproj, a CONFIRMED and a PRE_ALERT record were produced.
C20_Testigo ==
    /\ ~entorno.pyproj
    /\ pc = "fin"
    /\ \E r \in Registros : r.alerta /\ r.gtm = NoDisponible
    /\ \E r \in Registros : r.pre_alerta /\ r.dist_info.nulo

(***************************************************************************)
(* C21.  One reference time per run: two records of one run whose rows     *)
(* have the same acquisition timestamp have the same age, the same colour  *)
(* and the same active status, whenever and from whichever source they     *)
(* were processed.                                                         *)
(***************************************************************************)
C21_UnaHoraDeReferencia ==
    \A r, q \in Registros :
        r.fecha = q.fecha =>
            /\ r.horas = q.horas
            /\ r.color = q.color
            /\ (r.horas * 10 <= 15 * MINUTOS_HORA) <=> (q.horas * 10 <= 15 * MINUTOS_HORA)

(***************************************************************************)
(* C22.  No core area in the registry, which may be empty: every row is    *)
(* classified ROUTINE (no flag, area "Externa"), nothing raises, and the   *)
(* run goes on to the selection, where both active subsets are empty.      *)
(***************************************************************************)
C22_SinNucleo ==
    (AreasPaxban = {} /\ pc \notin {"espera", "cargar"} /\ ~EsSimulacro(entorno.ACTION_TYPE)) =>
        /\ Len(puntos) = Len(SelectSeq(leidas, BienFormada))
        /\ \A r \in Registros :
              /\ ~r.alerta /\ ~r.pre_alerta
              /\ r.concesion = "Externa"
              /\ r.dist_info.nulo
        /\ alertas = <<>> /\ pre_alertas = <<>>
        /\ Despachado => EnviosDe("ALERTA") = {} /\ EnviosDe("PRE_ALERTA") = {}
        /\ pc = "fin" => \E i \in 1..Len(traza) : traza[i] = "seleccionar"

\* A registry with one area that is not the core one, a fresh row inside it.
C22_Testigo ==
    /\ pc = "fin"
    /\ Len(concesiones) = 1
    /\ AreasPaxban = {}
    /\ \E r \in Registros : contains(concesiones[1].poly, Lugar(r)) /\ r.horas * 10 <= 15 * MINUTOS_HORA

\* Both channels were handed the status report.
ReporteEnviado ==
    /\ \E i \in EnviosDe("REPORTE") : enviados[i].canal = "telegram"
    /\ \E i \in EnviosDe("REPORTE") : enviados[i].canal = "correo"

\* A forced report in a run without active detections, past the dispatch.
ReporteForzado == Despachado /\ ~HayActivas /\ entorno.FORCE_REPORT

C24_Simulacros ==
    (Despachado /\ EsSimulacro(entorno.ACTION_TYPE)) =>
        /\ entorno.ACTION_TYPE = "test_incendio" => EnviosDe("ALERTA") # {}
        /\ entorno.ACTION_TYPE = "test_prealerta" => EnviosDe("PRE_ALERTA") # {}
        /\ entorno.ACTION_TYPE = "test_monitoreo" => EnviosDe("REPORTE") # {}
        /\ sat_i = 1 /\ leidas = <<>> /\ fallos = {}

\* The parts of C24 that the code does keep: the alert of test_incendio and
\* the absence of downloads.
C24_IncendioYSinDescarga ==
    (Despachado /\ EsSimulacro(entorno.ACTION_TYPE)) =>
        /\ entorno.ACTION_TYPE = "test_incendio" => EnviosDe("ALERTA") # {}
        /\ sat_i = 1 /\ leidas = <<>> /\ fallos = {}

\* test_prealerta never dispatches the pre-alert.
C24_PrealertaMuda ==
    (Despachado /\ entorno.ACTION_TYPE = "test_prealerta") => EnviosDe("PRE_ALERTA") = {}

(***************************************************************************)
(* Runs in which a write to the disk raises.  The writes of line 753 and   *)
(* of guardar_mapa_local and guardar_bitacora are in no try of main: the   *)
(* OSError leaves main and arrives at the handler of line 996.             *)
(***************************************************************************)
SubclasesDeException == {"OSError", "ValueError", "KeyError", "TypeError"}

\* A mutant of Capturada: except ValueError for except Exception.
Capturada_solo_valor(e) == e = "ValueError"

\* except Exception (line 996).
Capturada(e) == e \in SubclasesDeException

\* open('incendios.json', 'w') raises (line 753).
FallaGuardarJSON ==
    /\ pc = "guardar"
    /\ excepcion' = "OSError"
    /\ pc' = "excepcion"
    /\ UNCHANGED <<exit_status, angle, card, ahora, corrida, entorno, geojson, concesiones, sat_i,
                   lines, leidas, fallos, puntos, alertas, pre_alertas, img_bytes, disco,
                   enviados, traza, alertados>>

\* os.makedirs or open raises in guardar_mapa_local or in guardar_bitacora
\* (lines 249-251 and 258-263), which write only when there is an image.
\* When both are called the first may have written before the second raises.
FallaGuardarMapa ==
    /\ pc = "mapa"
    /\ alertas # <<>> \/ entorno.FORCE_REPORT
    /\ "PNG" \in Imagenes(entorno.pyproj)
    /\ img_bytes' = "PNG"
    /\ \/ disco' = disco
       \/ /\ alertas # <<>> /\ entorno.FORCE_REPORT
          /\ disco' = guardar_mapa_local(disco, "PNG")
    /\ excepcion' = "OSError"
    /\ pc' = "excepcion"
    /\ UNCHANGED <<exit_status, angle, card, ahora, corrida, entorno, geojson, concesiones, sat_i,
                   lines, leidas, fallos, puntos, alertas, pre_alertas, enviados, traza,
                   alertados>>

\* Lines 996-1000: the handler prints the traceback and calls sys.exit(0);
\* an exception it does not catch ends the interpreter with status 1.
ManejadorFatal ==
    /\ pc = "excepcion"
    /\ exit_status' = IF Capturada(excepcion) THEN 0 ELSE 1
    /\ pc' = "salida"
    /\ UNCHANGED <<excepcion, angle, card, ahora, corrida, entorno, geojson, concesiones, sat_i,
                   lines, leidas, fallos, puntos, alertas, pre_alertas, img_bytes, disco,
                   enviados, traza, alertados>>

NextFallos ==
    \/ IniciarCorrida(EntornosSpec, FuentesHorario)
    \/ CargarConcesiones
    \/ Simulacro
    \/ Descargar(RespuestasCorridas)
    \/ ProcesarFila
    \/ GuardarJSON
    \/ FallaGuardarJSON
    \/ Seleccionar
    \/ GenerarMapa
    \/ FallaGuardarMapa
    \/ EnviarAlerta
    \/ EnviarPreAlerta
    \/ EnviarReporte
    \/ SinEnvio
    \/ ReporteMensual
    \/ GenerarGaleria
    \/ ManejadorFatal

SpecFallos == Init /\ [][NextFallos]_vars

\* The process has exited.
Terminado == exit_status # SinSalida

PasoDe(nombre) == {i \in 1..Len(traza) : traza[i] = nombre}

(***************************************************************************)
(* C25.  Every run that ends has executed generar_galeria_html, as its     *)
(* last step, whether or not a write of an output step failed, and after   *)
(* the monthly report when ACTION_TYPE is reporte_mensual.                 *)
(***************************************************************************)
C25_GaleriaSiempre ==
    Terminado =>
        /\ traza # <<>> /\ traza[Len(traza)] = "galeria"
        /\ disco.reportes_html
        /\ entorno.ACTION_TYPE = "reporte_mensual" =>
               \E i \in PasoDe("mensual") : \A j \in PasoDe("galeria") : i < j

\* What the code does keep: a run in which no exception leaves main ends
\* with the gallery, after the monthly report if there is one.
C25_GaleriaSinExcepcion ==
    (Terminado /\ excepcion = "") =>
        /\ traza # <<>> /\ traza[Len(traza)] = "galeria"
        /\ disco.reportes_html
        /\ entorno.ACTION_TYPE = "reporte_mensual" =>
               \E i \in PasoDe("mensual") : \A j \in PasoDe("galeria") : i < j

(***************************************************************************)
(* C26.  The process never ends with a status other than 0: a run that     *)
(* reaches the end of main exits with 0, and so does a run whose exception *)
(* left main and was caught by the handler of the top level.               *)
(***************************************************************************)
C26_SalidaCero ==
    /\ exit_status \in {SinSalida, 0}
    /\ pc \in {"fin", "salida"} => exit_status = 0
    /\ pc = "salida" => excepcion # ""

\* The write of the bitácora raised in a run with an active alert: nothing
\* was sent, no gallery was generated, and the process exited with 0.
C26_Testigo ==
    /\ pc = "salida"
    /\ excepcion = "OSError"
    /\ exit_status = 0
    /\ alertas # <<>>
    /\ enviados = <<>>
    /\ PasoDe("galeria") = {}

\* The run is past the map step of lines 761-765.
MapaHecho == pc \in {"enviar", "mensual", "galeria", "fin"}

(***************************************************************************)
(* C27.  The bitácora is written only in a run with an active CONFIRMED    *)
(* detection, once, and its JSON holds exactly the active CONFIRMED        *)
(* records of the run, in order; a run whose active records are all        *)
(* PRE_ALERT, whose CONFIRMED records are all stale, or that is only a     *)
(* forced report, writes none.  It is written exactly when there is an     *)
(* active CONFIRMED record and the map was rendered.                       *)
(***************************************************************************)
C27_Bitacora ==
    /\ ~MapaHecho => disco.bitacora = <<>>
    /\ MapaHecho =>
          /\ Len(disco.bitacora) <= 1
          /\ disco.bitacora # <<>> <=>
                 ((\E r \in Registros : ActivaConfirmada(r)) /\ img_bytes # "None")
          /\ \A i \in 1..Len(disco.bitacora) :
                 /\ disco.bitacora[i].tipo = "alertas"
                 /\ disco.bitacora[i].datos = SelectSeq(puntos, ActivaConfirmada)

\* A run with a stale CONFIRMED record and an active one: the bitácora holds
\* the active one alone.
C27_Testigo ==
    /\ pc = "fin"
    /\ Len(disco.bitacora) = 1
    /\ Len(disco.bitacora[1].datos) = 1
    /\ \E r \in Registros : r.alerta /\ ~ActivaConfirmada(r)

====
